---- MODULE Spec2Model ----
(***************************************************************************)
(* Model of bots/mnstry/src/bot.py: the discount watcher's poll cycle      *)
(* (run_once), its retry wrapper (main) and the pure functions they use    *)
(* (to_float, calc_discount, collect_deals, rank_deals, the signature).    *)
(*                                                                         *)
(* Numbers: a price is modelled as an integer number of cents, i.e. the    *)
(* float the decimal text "12.34" parses to is 1234.  A percentage is an   *)
(* exact reduced fraction [n, d]; float rounding is not modelled.          *)
(***************************************************************************)
EXTENDS Integers, Sequences, FiniteSets, TLC

\* ------------------------------------------------------------------------
\* Config (bot.py lines 14-31)
\* ------------------------------------------------------------------------
MNSTRY_BASE == "https://mnstry.com"
MNSTRY_HOME == MNSTRY_BASE \o "/"
TOP_N == 5
MAX_ATTEMPTS == 3
RETRY_SLEEP_SECONDS == 3

\* ------------------------------------------------------------------------
\* Bounds of the model
\* ------------------------------------------------------------------------
\* number of invocations of main() (scheduler runs) in one behaviour
MaxRuns == 2

\* ------------------------------------------------------------------------
\* JSON values of the feed.  A raw field is null/absent, a piece of text
\* that is a number (v, in cents for prices), or text that is no number.
\* ------------------------------------------------------------------------
Null == [k |-> "null", v |-> 0]
Junk == [k |-> "junk", v |-> 0]
Num(n) == [k |-> "num", v |-> n]

\* Python's None for Optional[float] results
None == [some |-> FALSE, val |-> 0]
Some(x) == [some |-> TRUE, val |-> x]

to_float(value) ==
    IF value.k = "null" THEN None
    ELSE IF value.k = "num" THEN Some(value.v)
    ELSE None

RECURSIVE Gcd(_, _)
Gcd(a, b) == IF b = 0 THEN a ELSE Gcd(b, a % b)

\* the exact value of (discount_abs / compare_at) * 100.0, reduced
Pct(num, den) ==
    LET a == IF num < 0 THEN 0 - num ELSE num
        g == Gcd(a, den)
    IN  IF num = 0 THEN [n |-> 0, d |-> 1] ELSE [n |-> num \div g, d |-> den \div g]

calc_discount(compare_at, price) ==
    LET discount_abs == compare_at - price
    IN  IF compare_at <= 0
        THEN [discount_abs |-> discount_abs, discount_pct |-> Pct(0, 1)]
        ELSE [discount_abs |-> discount_abs,
              discount_pct |-> Pct(discount_abs * 100, compare_at)]

\* p.get("title") or "MNSTRY Product"
ProductTitle(p) == IF p.title = "" THEN "MNSTRY Product" ELSE p.title

\* f"{MNSTRY_BASE}/products/{handle}" if handle else MNSTRY_HOME
ProductUrl(p) ==
    IF p.handle = "" THEN MNSTRY_HOME ELSE MNSTRY_BASE \o "/products/" \o p.handle

\* int(variant_id) if variant_id is not None else 0; int() of text that is no
\* integer raises ValueError
IntRaises(variant_id) == variant_id.k = "junk"
VidInt(variant_id) == IF variant_id.k = "null" THEN 0 ELSE variant_id.v

\* faulty variant: no look-up in seen_variant_ids, a repeated id is taken again
VariantBody_no_dedupe(acc, title, url, v) ==
    LET price == to_float(v.price)
        cap == to_float(v.compare_at_price)
        vid_int == VidInt(v.id)
        disc == calc_discount(cap.val, price.val)
    IN  IF acc.err THEN acc
        ELSE IF ~price.some \/ ~cap.some THEN acc
        ELSE IF IntRaises(v.id) THEN [acc EXCEPT !.err = TRUE]
        ELSE IF cap.val > price.val
             THEN [acc EXCEPT
                     !.seen_variant_ids = @ \cup {vid_int},
                     !.product_has_discount = TRUE,
                     !.discounted_variants_count = @ + 1,
                     !.deals = Append(@, [title |-> title,
                                          url |-> url,
                                          variant_id |-> vid_int,
                                          price |-> price.val,
                                          compare_at |-> cap.val,
                                          discount_abs |-> disc.discount_abs,
                                          discount_pct |-> disc.discount_pct])]
             ELSE [acc EXCEPT !.seen_variant_ids = @ \cup {vid_int}]

\* one iteration of the inner loop of collect_deals (lines 146-174); acc holds
\* the function's locals plus err, which is TRUE once int() has raised
VariantBody(acc, title, url, v) ==
    LET price == to_float(v.price)
        cap == to_float(v.compare_at_price)
        vid_int == VidInt(v.id)
        disc == calc_discount(cap.val, price.val)
    IN  IF acc.err THEN acc
        ELSE IF ~price.some \/ ~cap.some THEN acc
        ELSE IF IntRaises(v.id) THEN [acc EXCEPT !.err = TRUE]
        ELSE IF vid_int \in acc.seen_variant_ids THEN acc
        ELSE IF cap.val > price.val
             THEN [acc EXCEPT
                     !.seen_variant_ids = @ \cup {vid_int},
                     !.product_has_discount = TRUE,
                     !.discounted_variants_count = @ + 1,
                     !.deals = Append(@, [title |-> title,
                                          url |-> url,
                                          variant_id |-> vid_int,
                                          price |-> price.val,
                                          compare_at |-> cap.val,
                                          discount_abs |-> disc.discount_abs,
                                          discount_pct |-> disc.discount_pct])]
             ELSE [acc EXCEPT !.seen_variant_ids = @ \cup {vid_int}]

RECURSIVE VariantLoop(_, _, _, _, _)
VariantLoop(acc, title, url, variants, j) ==
    IF j > Len(variants) THEN acc
    ELSE VariantLoop(VariantBody(acc, title, url, variants[j]), title, url, variants, j + 1)

\* faulty variant: product_has_discount is not reset for the next product
ProductBody_no_reset(acc, p) ==
    LET a1 == VariantLoop(acc, ProductTitle(p), ProductUrl(p), p.variants, 1)
    IN  IF a1.err THEN a1
        ELSE IF a1.product_has_discount
             THEN [a1 EXCEPT !.discounted_products_count = @ + 1]
             ELSE a1

\* one iteration of the outer loop (lines 139-177)
ProductBody(acc, p) ==
    LET a0 == [acc EXCEPT !.product_has_discount = FALSE]
        a1 == VariantLoop(a0, ProductTitle(p), ProductUrl(p), p.variants, 1)
    IN  IF a1.err THEN a1
        ELSE IF a1.product_has_discount
             THEN [a1 EXCEPT !.discounted_products_count = @ + 1]
             ELSE a1

RECURSIVE ProductLoop(_, _, _)
ProductLoop(acc, products, i) ==
    IF i > Len(products) \/ acc.err THEN acc
    ELSE ProductLoop(ProductBody(acc, products[i]), products, i + 1)

\* collect_deals: the returned triple, or err when it raised
collect_deals(products) ==
    ProductLoop([deals |-> <<>>,
                 discounted_products_count |-> 0,
                 discounted_variants_count |-> 0,
                 seen_variant_ids |-> {},
                 product_has_discount |-> FALSE,
                 err |-> FALSE], products, 1)

\* ------------------------------------------------------------------------
\* Ranking (lines 182-193)
\* ------------------------------------------------------------------------
\* a.discount_pct > b.discount_pct on exact fractions (denominators positive)
PctGt(a, b) == a.n * b.d > b.n * a.d

\* faulty variant: the absolute discount is compared ascending
KeyLess_abs_ascending(a, b) ==
    IF a.discount_pct # b.discount_pct THEN PctGt(a.discount_pct, b.discount_pct)
    ELSE IF a.discount_abs # b.discount_abs THEN a.discount_abs < b.discount_abs
    ELSE IF a.price # b.price THEN a.price < b.price
    ELSE a.variant_id < b.variant_id

\* key(a) < key(b) for key = (-pct, -abs, price, variant_id), tuples compared
\* lexicographically
KeyLess(a, b) ==
    IF a.discount_pct # b.discount_pct THEN PctGt(a.discount_pct, b.discount_pct)
    ELSE IF a.discount_abs # b.discount_abs THEN a.discount_abs > b.discount_abs
    ELSE IF a.price # b.price THEN a.price < b.price
    ELSE a.variant_id < b.variant_id

\* stable insertion: d goes after every element whose key is not greater
RECURSIVE InsertSorted(_, _)
InsertSorted(s, d) ==
    IF s = <<>> THEN <<d>>
    ELSE IF KeyLess(d, s[1]) THEN <<d>> \o s
    ELSE <<s[1]>> \o InsertSorted(Tail(s), d)

RECURSIVE SortFrom(_, _, _)
SortFrom(deals, i, out) ==
    IF i > Len(deals) THEN out ELSE SortFrom(deals, i + 1, InsertSorted(out, deals[i]))

\* faulty variant: the list is returned in listing order
rank_deals_unsorted(deals) == deals

\* sorted(deals, key=...): a new list, stable
rank_deals(deals) == SortFrom(deals, 1, <<>>)

\* ranked[a:b] of Python, 0-based half-open, clipped to the list
Slice(s, a, b) ==
    LET hi == IF b < Len(s) THEN b ELSE Len(s)
    IN  IF a >= hi THEN <<>> ELSE SubSeq(s, a + 1, hi)

\* f"{x:.2f}" of a value given in cents
Fmt2(c) ==
    LET a == IF c < 0 THEN 0 - c ELSE c
        frac == a % 100
    IN  (IF c < 0 THEN "-" ELSE "") \o ToString(a \div 100) \o "."
        \o (IF frac < 10 THEN "0" ELSE "") \o ToString(frac)

\* lines 225-228
Signature(top) ==
    IF top = <<>> THEN ""
    ELSE ToString(top[1].variant_id) \o "|" \o Fmt2(top[1].compare_at)
         \o ">" \o Fmt2(top[1].price)

\* ------------------------------------------------------------------------
\* State file (lines 36-60).  keys is the set of keys the stored JSON object
\* has; kind is "absent" (no file), "corrupt" (no valid JSON object) or "json"
\* ------------------------------------------------------------------------
AbsentFile == [kind |-> "absent", keys |-> {}, sale_active |-> FALSE, last_signature |-> ""]
CorruptFile == [kind |-> "corrupt", keys |-> {}, sale_active |-> FALSE, last_signature |-> ""]
JsonFile(keys, active, sig) ==
    [kind |-> "json", keys |-> keys, sale_active |-> active, last_signature |-> sig]

DefaultState == [sale_active |-> FALSE, last_signature |-> ""]

load_state(f) ==
    IF f.kind = "absent" THEN DefaultState
    ELSE IF f.kind = "json"
         THEN [sale_active |-> IF "sale_active" \in f.keys THEN f.sale_active ELSE FALSE,
               last_signature |-> IF "last_signature" \in f.keys THEN f.last_signature ELSE ""]
         ELSE DefaultState

\* the file after save_state(state) has returned
save_state(st) == JsonFile({"sale_active", "last_signature"}, st.sale_active, st.last_signature)

\* ------------------------------------------------------------------------
\* The feed: products of variants, and the HTTP responses that carry it
\* ------------------------------------------------------------------------
Variant(id, price, cap) == [id |-> id, price |-> price, compare_at_price |-> cap]
Product(title, handle, variants) == [title |-> title, handle |-> handle, variants |-> variants]

\* the i-th discounted variant of a sale feed: reference price 100.00, price
\* between 50.00 and 90.00, so that listing order is not ranking order
SaleVariant(i) == Variant(Num(i), Num(5000 + 1000 * ((i * 2) % 5)), Num(10000))

\* variants lo..hi of the sale as one product's variant list
SaleVariants(lo, hi) == [j \in 1..(hi - lo + 1) |-> SaleVariant(lo + j - 1)]

\* a product without any discount: equal prices, and no reference price
PlainProduct ==
    Product("Plain", "plain",
            <<Variant(Num(900), Num(3000), Num(3000)), Variant(Num(901), Num(3000), Null)>>)

\* a feed with k discounted variants, three per product, after PlainProduct
SaleFeed(k) ==
    LET np == (k + 2) \div 3
    IN  <<PlainProduct>> \o
        [j \in 1..np |->
            Product(IF j = 1 THEN "" ELSE "Shirt", IF j = 2 THEN "" ELSE "shirt",
                    SaleVariants(3 * (j - 1) + 1, IF 3 * j < k THEN 3 * j ELSE k))]

\* a feed whose discounted variant has an id that is no integer
JunkIdFeed == <<Product("Odd", "odd", <<Variant(Junk, Num(500), Num(1000))>>)>>

\* deal counts of the feeds the cycle polls: none, one, exactly TOP_N, more
\* than TOP_N, more than 2*TOP_N
DealCounts == {0, 1, TOP_N, TOP_N + 2, 2 * TOP_N + 1}

\* parsed JSON bodies: size is the number of top-level entries (an empty
\* object or list is falsy in Python)
NoneData == [k |-> "none", size |-> 0, has_products |-> FALSE, products |-> <<>>]
DictBody(products) == [k |-> "dict", size |-> 1, has_products |-> TRUE, products |-> products]
EmptyDict == [k |-> "dict", size |-> 0, has_products |-> FALSE, products |-> <<>>]
ErrorDict == [k |-> "dict", size |-> 1, has_products |-> FALSE, products |-> <<>>]
ListBody == [k |-> "list", size |-> 1, has_products |-> FALSE, products |-> <<>>]

JsonTypes == {"application/json; charset=utf-8", "text/json"}

HttpResponse(exc, status, ctype, parses, body) ==
    [exc |-> exc, status |-> status, ctype |-> ctype, parses |-> parses, body |-> body]
NoResponse == HttpResponse(FALSE, 0, "", FALSE, NoneData)

GoodResponses ==
    {HttpResponse(FALSE, 200, "application/json; charset=utf-8", TRUE, DictBody(SaleFeed(k))) :
        k \in DealCounts}
    \cup {HttpResponse(FALSE, 200, "text/json", TRUE, DictBody(JunkIdFeed)),
          HttpResponse(FALSE, 200, "application/json; charset=utf-8", TRUE, ErrorDict),
          HttpResponse(FALSE, 200, "application/json; charset=utf-8", TRUE, ListBody)}

BadResponses ==
    {HttpResponse(TRUE, 0, "", FALSE, NoneData),
     HttpResponse(FALSE, 503, "application/json; charset=utf-8", TRUE, DictBody(SaleFeed(1))),
     HttpResponse(FALSE, 200, "text/html", TRUE, DictBody(SaleFeed(1))),
     HttpResponse(FALSE, 200, "application/json; charset=utf-8", FALSE, NoneData),
     HttpResponse(FALSE, 200, "application/json; charset=utf-8", TRUE, EmptyDict)}

Responses == GoodResponses \cup BadResponses

\* faulty variant: the status of the response is not looked at
http_get_json_any_status(r) ==
    IF r.exc THEN NoneData
    ELSE IF r.ctype \notin JsonTypes THEN NoneData
    ELSE IF ~r.parses THEN NoneData
    ELSE r.body

\* http_get_json (lines 80-100): the parsed body, or None
http_get_json(r) ==
    IF r.exc THEN NoneData
    ELSE IF r.status # 200 THEN NoneData
    ELSE IF r.ctype \notin JsonTypes THEN NoneData
    ELSE IF ~r.parses THEN NoneData
    ELSE r.body

\* `not data` of line 212
NotData(d) == d.k = "none" \/ d.size = 0

\* data.get("products", []) or []
ProductsOf(d) == IF d.has_products THEN d.products ELSE <<>>

\* replies of the chat endpoint to requests.post; exc is a connection error or
\* timeout raised by the call itself
TelegramReplies ==
    {[exc |-> FALSE, status |-> 200], [exc |-> FALSE, status |-> 500], [exc |-> TRUE, status |-> 0]}

\* r.raise_for_status() raises HTTPError for a 4xx or 5xx status
RaisesForStatus(status) == 400 <= status /\ status < 600

\* telegram_send (lines 66-74): "ok", or the class of the exception
\* it raises: KeyError for a missing credential, else a RequestException
telegram_send(credentials, r) ==
    IF ~credentials THEN "Exception"
    ELSE IF r.exc THEN "RequestException"
    ELSE IF RaisesForStatus(r.status) THEN "RequestException"
    ELSE "ok"

\* ------------------------------------------------------------------------
\* run_once: the decision and the message bodies (lines 216-267)
\* ------------------------------------------------------------------------
NoLocals ==
    [deals |-> <<>>, discounted_products |-> 0, discounted_variants |-> 0,
     sale_now |-> FALSE, ranked |-> <<>>, top |-> <<>>, next_top |-> <<>>,
     signature |-> "", was_active |-> FALSE]

\* faulty variant: a stored signature that differs from the current one counts
\* as "no sale recorded"
Locals_signature_gated(c, st) ==
    LET ranked == rank_deals(c.deals)
        top == Slice(ranked, 0, TOP_N)
    IN  [deals |-> c.deals,
         discounted_products |-> c.discounted_products_count,
         discounted_variants |-> c.discounted_variants_count,
         sale_now |-> Len(c.deals) > 0,
         ranked |-> ranked,
         top |-> top,
         next_top |-> Slice(ranked, TOP_N, TOP_N * 2),
         signature |-> Signature(top),
         was_active |-> st.sale_active /\ st.last_signature = Signature(top)]

\* lines 217-230, given the triple collect_deals returned
Locals(c, st) ==
    LET ranked == rank_deals(c.deals)
        top == Slice(ranked, 0, TOP_N)
    IN  [deals |-> c.deals,
         discounted_products |-> c.discounted_products_count,
         discounted_variants |-> c.discounted_variants_count,
         sale_now |-> Len(c.deals) > 0,
         ranked |-> ranked,
         top |-> top,
         next_top |-> Slice(ranked, TOP_N, TOP_N * 2),
         signature |-> Signature(top),
         was_active |-> st.sale_active]

\* faulty variant: the test of the previous flag is inverted
NotifyStart_inverted(was_active, sale_now) == was_active /\ sale_now

\* faulty variant: level-triggered, the previous flag is ignored
NotifyStart_level(was_active, sale_now) == sale_now

\* line 233
NotifyStart(was_active, sale_now) == (~was_active) /\ sale_now

\* faulty variant: the configuration flag is ignored
NotifyEnd_unconditional(was_active, sale_now, notify_sale_end) ==
    was_active /\ (~sale_now)

\* line 261
NotifyEnd(was_active, sale_now, notify_sale_end) ==
    was_active /\ (~sale_now) /\ notify_sale_end

Min(a, b) == IF a < b THEN a ELSE b
Max(a, b) == IF a > b THEN a ELSE b

\* lines 235-243
Message1(l) ==
    [kind |-> "msg1",
     products |-> l.discounted_products,
     variants |-> l.discounted_variants,
     top_label |-> IF l.top # <<>> THEN Min(TOP_N, Len(l.top)) ELSE TOP_N,
     placeholder |-> l.top = <<>>,
     lines |-> l.top]

\* faulty variant: the remaining count is TOP_N short, without the clamp
Message2_unclamped(l) ==
    [kind |-> "msg2",
     after_top |-> Len(l.top),
     remaining |-> l.discounted_variants - TOP_N,
     no_further |-> l.next_top = <<>>,
     lines |-> l.next_top]

\* lines 246-258
Message2(l) ==
    [kind |-> "msg2",
     after_top |-> Len(l.top),
     remaining |-> Max(0, l.discounted_variants - Len(l.top)),
     no_further |-> l.next_top = <<>>,
     lines |-> l.next_top]

\* line 262
MessageEnd == [kind |-> "end"]

\* faulty variant: the flag is not updated
NewState_flag_kept(st, l) == [st EXCEPT !.last_signature = l.signature]

\* lines 265-266
NewState(st, l) == [st EXCEPT !.sale_active = l.sale_now, !.last_signature = l.signature]

\* ------------------------------------------------------------------------
\* main: the retry policy (lines 270-285)
\* ------------------------------------------------------------------------
\* faulty variant: off by one, a fourth attempt is made
IsLastAttempt_late(a) == a = MAX_ATTEMPTS

IsLastAttempt(a) == a = MAX_ATTEMPTS - 1

\* faulty variant: the sleep grows with the attempt for every class of exception
Backoff_growing(kind, a) == RETRY_SLEEP_SECONDS * (a + 1)

\* faulty variant: the same flat sleep for every class of exception
Backoff_flat(kind, a) == RETRY_SLEEP_SECONDS

Backoff(kind, a) ==
    IF kind = "RequestException" THEN RETRY_SLEEP_SECONDS * (a + 1) ELSE RETRY_SLEEP_SECONDS

VARIABLES
    file,             \* content of STATE_FILE
    NOTIFY_SALE_END,  \* the configuration flag of line 27
    credentials,      \* TELEGRAM_BOT_TOKEN and TELEGRAM_CHAT_ID are set
    pc,               \* position of the process in main/run_once
    attempt,          \* loop variable of main
    runs,             \* invocations of main so far
    state,            \* run_once's local: the loaded state
    resp,             \* the response to this attempt's GET
    data,             \* run_once's local: the result of http_get_json
    loc,              \* run_once's other locals
    exc,              \* class of the exception the current attempt raised
    log,              \* what this invocation of main did, in order
    file_at_start     \* content of STATE_FILE when the attempt started

vars == <<file, NOTIFY_SALE_END, credentials, pc, attempt, runs, state, resp, data,
          loc, exc, log, file_at_start>>

\* state files the first invocation may find
InitialFiles ==
    {AbsentFile, CorruptFile,
     JsonFile({}, FALSE, ""),
     JsonFile({"sale_active", "last_signature"}, FALSE, ""),
     JsonFile({"sale_active", "last_signature"}, TRUE, "5|100.00>50.00")}

Init ==
    /\ file \in InitialFiles
    /\ NOTIFY_SALE_END \in BOOLEAN
    /\ credentials \in BOOLEAN
    /\ pc = "idle"
    /\ attempt = 0
    /\ runs = 0
    /\ state = DefaultState
    /\ resp = NoResponse
    /\ data = NoneData
    /\ loc = NoLocals
    /\ exc = "none"
    /\ log = <<>>
    /\ file_at_start = file

\* the process is started (by the scheduler): main() begins its loop
StartMain ==
    /\ pc \in {"idle", "done", "raised"}
    /\ runs < MaxRuns
    /\ runs' = runs + 1
    /\ attempt' = 0
    /\ pc' = "load"
    /\ log' = <<>>
    /\ exc' = "none"
    /\ UNCHANGED <<file, NOTIFY_SALE_END, credentials, state, resp, data, loc, file_at_start>>

\* line 209
LoadState ==
    /\ pc = "load"
    /\ state' = load_state(file)
    /\ file_at_start' = file
    /\ exc' = "none"
    /\ resp' = NoResponse
    /\ data' = NoneData
    /\ loc' = NoLocals
    /\ log' = Append(log, [ev |-> "start", att |-> attempt,
                            active |-> load_state(file).sale_active])
    /\ pc' = "fetch"
    /\ UNCHANGED <<file, NOTIFY_SALE_END, credentials, attempt, runs>>

\* the except clauses of main, entered with an exception of class kind; lg is
\* the log up to the raise
Except(kind, lg) ==
    /\ exc' = kind
    /\ IF IsLastAttempt(attempt)
       THEN /\ pc' = "raised"
            /\ attempt' = attempt
            /\ log' = lg
       ELSE /\ pc' = "load"
            /\ attempt' = attempt + 1
            /\ log' = Append(lg, [ev |-> "sleep", att |-> attempt,
                                  secs |-> Backoff(kind, attempt)])

\* lines 211-214: the GET; without data run_once returns and so does main
Fetch ==
    /\ pc = "fetch"
    /\ \E r \in Responses :
        /\ resp' = r
        /\ data' = http_get_json(r)
        /\ IF NotData(http_get_json(r))
           THEN /\ pc' = "done"
                /\ log' = Append(log, [ev |-> "nodata", att |-> attempt])
           ELSE /\ pc' = "collect"
                /\ log' = log
    /\ UNCHANGED <<file, NOTIFY_SALE_END, credentials, attempt, runs, state, loc, exc,
                   file_at_start>>

\* the position after the SaleStarted block
AfterStart(l) ==
    IF NotifyEnd(l.was_active, l.sale_now, NOTIFY_SALE_END) THEN "sendEnd" ELSE "save"

\* lines 216-233: data.get raises AttributeError on a list, collect_deals may
\* raise; otherwise the locals are computed and the branch is taken
Collect ==
    /\ pc = "collect"
    /\ LET c == collect_deals(ProductsOf(data))
           l == Locals(c, state)
       IN  IF data.k # "dict" \/ c.err
           THEN /\ Except("Exception", Append(log, [ev |-> "collect_raised", att |-> attempt]))
                /\ loc' = loc
           ELSE /\ loc' = l
                /\ pc' = IF NotifyStart(l.was_active, l.sale_now) THEN "send1"
                         ELSE AfterStart(l)
                /\ log' = Append(log, [ev |-> "deals", att |-> attempt,
                                       count |-> Len(l.deals)])
                /\ UNCHANGED <<attempt, exc>>
    /\ UNCHANGED <<file, NOTIFY_SALE_END, credentials, runs, state, resp, data, file_at_start>>

\* one call of telegram_send at position pos, continuing at position next
Send(pos, msg, next) ==
    /\ pc = pos
    /\ \E r \in TelegramReplies :
        LET res == telegram_send(credentials, r)
        IN  IF res = "ok"
            THEN /\ log' = Append(log, [ev |-> "send", att |-> attempt, msg |-> msg])
                 /\ pc' = next
                 /\ UNCHANGED <<attempt, exc>>
            ELSE Except(res, log)
    /\ UNCHANGED <<file, NOTIFY_SALE_END, credentials, runs, state, resp, data, loc,
                   file_at_start>>

\* faulty variant: message 2 is sent only when a second slice exists
AfterMessage1_if_more(l) == IF l.next_top # <<>> THEN "send2" ELSE AfterStart(l)

\* lines 245-258: message 2 follows message 1 on both branches of `if next_top`
AfterMessage1(l) == "send2"

\* line 243
SendMessage1 == Send("send1", Message1(loc), AfterMessage1(loc))

\* lines 255 and 258
SendMessage2 == Send("send2", Message2(loc), AfterStart(loc))

\* line 262
SendSaleEnd == Send("sendEnd", MessageEnd, "save")

\* lines 265-267; a save that raises OSError has left the file as it was
\* (open failed) or truncated (the dump failed)
SaveState ==
    /\ pc = "save"
    /\ state' = NewState(state, loc)
    /\ \/ /\ file' = save_state(NewState(state, loc))
          /\ log' = Append(log, [ev |-> "write", att |-> attempt,
                                 written |-> NewState(state, loc)])
          /\ pc' = "done"
          /\ UNCHANGED <<attempt, exc>>
       \/ /\ file' \in {file, CorruptFile}
          /\ Except("Exception", Append(log, [ev |-> "write_failed", att |-> attempt]))
    /\ UNCHANGED <<NOTIFY_SALE_END, credentials, runs, resp, data, loc, file_at_start>>

Next ==
    \/ StartMain
    \/ LoadState
    \/ Fetch
    \/ Collect
    \/ SendMessage1
    \/ SendMessage2
    \/ SendSaleEnd
    \/ SaveState

Spec == Init /\ [][Next]_vars

TypeOK ==
    /\ pc \in {"idle", "load", "fetch", "collect", "send1", "send2", "sendEnd", "save",
               "done", "raised"}
    /\ attempt \in 0..(MAX_ATTEMPTS - 1)
    /\ runs \in 0..MaxRuns
    /\ exc \in {"none", "RequestException", "Exception"}

\* ------------------------------------------------------------------------
\* Reading the log
\* ------------------------------------------------------------------------
Idx == 1..Len(log)
Attempts == {log[i].att : i \in Idx}
HasEvent(a, ev) == \E i \in Idx : log[i].att = a /\ log[i].ev = ev
EventOf(a, ev) == log[CHOOSE i \in Idx : log[i].att = a /\ log[i].ev = ev]
CountEvents(a, ev) == Cardinality({i \in Idx : log[i].att = a /\ log[i].ev = ev})

\* the kinds of the messages attempt a delivered, in order
SendKinds(a) ==
    LET sends == SelectSeq(log, LAMBDA e : e.att = a /\ e.ev = "send")
    IN  [i \in 1..Len(sends) |-> sends[i].msg.kind]

\* deliveries of one kind of message in this invocation of main
Delivered(kind) ==
    Cardinality({i \in Idx : log[i].ev = "send" /\ log[i].msg.kind = kind})

\* attempt a read sale_active = active and computed a deal list
Cycle(a, active) ==
    /\ HasEvent(a, "start") /\ EventOf(a, "start").active = active
    /\ HasEvent(a, "deals")
DealCount(a) == EventOf(a, "deals").count

Last(s) == s[Len(s)]

\* ------------------------------------------------------------------------
\* C1: within one invocation of main() that starts from sale_active = false
\* and whose every attempt gets a feed with at least one deal, message 1 and
\* message 2 are each delivered at most once, and exactly once when main()
\* has returned normally.
\* ------------------------------------------------------------------------
C1_Transition ==
    /\ log # <<>>
    /\ log[1].active = FALSE
    /\ \A i \in Idx : log[i].ev \notin {"nodata", "collect_raised"}
    /\ \A i \in Idx : log[i].ev = "deals" => log[i].count > 0

C1_ExactlyOnce ==
    C1_Transition =>
        /\ Delivered("msg1") <= 1
        /\ Delivered("msg2") <= 1
        /\ pc = "done" => Delivered("msg1") = 1 /\ Delivered("msg2") = 1

\* ------------------------------------------------------------------------
\* C2: a cycle that read sale_active = true and found at least one deal
\* delivers no message, and what it writes (and leaves in the file) has
\* sale_active = true.
\* ------------------------------------------------------------------------
C2_SilentWhileActive ==
    \A a \in Attempts :
        (Cycle(a, TRUE) /\ DealCount(a) > 0) =>
            /\ SendKinds(a) = <<>>
            /\ HasEvent(a, "write") =>
                /\ EventOf(a, "write").written.sale_active = TRUE
                /\ file.kind = "json" /\ file.sale_active = TRUE

\* the second invocation polls an ongoing sale that an earlier cycle recorded
C2_Witness ==
    /\ runs = 2
    /\ pc = "done"
    /\ Cycle(attempt, TRUE)
    /\ DealCount(attempt) > 0
    /\ HasEvent(attempt, "write")
    /\ file_at_start.last_signature = "1|100.00>70.00"

\* ------------------------------------------------------------------------
\* C3: a cycle that read sale_active = false, found at least one deal and met
\* no delivery failure delivers exactly message 1 then message 2, and the
\* state it then persists has sale_active = true.
\* ------------------------------------------------------------------------
C3_TwoMessages ==
    \A a \in Attempts :
        (Cycle(a, FALSE) /\ DealCount(a) > 0) =>
            /\ (a = attempt /\ pc = "save") => SendKinds(a) = <<"msg1", "msg2">>
            /\ (HasEvent(a, "write") \/ HasEvent(a, "write_failed")) =>
                    SendKinds(a) = <<"msg1", "msg2">>
            /\ HasEvent(a, "write") =>
                /\ EventOf(a, "write").written.sale_active = TRUE
                /\ file.kind = "json" /\ file.sale_active = TRUE

\* the transition with more than 2*TOP_N deals, completed
C3_Witness ==
    /\ pc = "done"
    /\ Cycle(attempt, FALSE)
    /\ DealCount(attempt) > 2 * TOP_N
    /\ HasEvent(attempt, "write")
    /\ Len(loc.next_top) = TOP_N

\* ------------------------------------------------------------------------
\* C4: a completed cycle that found zero deals persists sale_active = false;
\* having read sale_active = true it delivers the closure notice alone when
\* NOTIFY_SALE_END is set and nothing otherwise; having read sale_active =
\* false it delivers nothing.
\* ------------------------------------------------------------------------
C4_ActiveToQuiet ==
    \A a \in Attempts :
        (HasEvent(a, "deals") /\ DealCount(a) = 0 /\ HasEvent(a, "write")) =>
            /\ EventOf(a, "write").written.sale_active = FALSE
            /\ file.kind = "json" /\ file.sale_active = FALSE
            /\ Cycle(a, TRUE) =>
                    SendKinds(a) = IF NOTIFY_SALE_END THEN <<"end">> ELSE <<>>
            /\ Cycle(a, FALSE) => SendKinds(a) = <<>>

\* the sale ended under the shipped configuration: silent, flag flipped
C4_Witness ==
    /\ pc = "done"
    /\ ~NOTIFY_SALE_END
    /\ Cycle(attempt, TRUE)
    /\ DealCount(attempt) = 0
    /\ HasEvent(attempt, "write")
    /\ file_at_start.sale_active /\ ~file.sale_active

\* ------------------------------------------------------------------------
\* C5: when the GET is answered with a status other than 200, a content type
\* that is not JSON or a body that does not parse, that step delivers
\* nothing, writes nothing, sleeps not, leaves the state file as the attempt
\* found it, and main() has returned without a further attempt.
\* ------------------------------------------------------------------------
NoDataResponse(r) == ~r.exc /\ (r.status # 200 \/ r.ctype \notin JsonTypes \/ ~r.parses)

C5_NoDataAbsorbed ==
    [][(pc = "fetch" /\ NoDataResponse(resp')) =>
            /\ pc' = "done"
            /\ attempt' = attempt
            /\ file' = file /\ file' = file_at_start
            /\ log' = Append(log, [ev |-> "nodata", att |-> attempt])
            /\ SendKinds(attempt) = <<>>
            /\ ~HasEvent(attempt, "write") /\ ~HasEvent(attempt, "write_failed")
            /\ ~HasEvent(attempt, "sleep")]_vars

\* main() has returned after a 503 answer on its first attempt, the file
\* still recording the sale it recorded before
C5_Witness ==
    /\ pc = "done"
    /\ resp.status = 503
    /\ attempt = 0
    /\ Last(log).ev = "nodata"
    /\ file = file_at_start /\ file.sale_active

\* ------------------------------------------------------------------------
\* C6: when the GET itself fails (network error, timeout) on an attempt that
\* is not the last, main() sleeps RETRY_SLEEP_SECONDS times the 1-based
\* attempt number and runs the cycle again; on the last attempt the failure
\* propagates out of main().
\* ------------------------------------------------------------------------
C6_FetchFailureRetried ==
    [][(pc = "fetch" /\ resp'.exc) =>
            IF attempt < MAX_ATTEMPTS - 1
            THEN /\ pc' = "load"
                 /\ attempt' = attempt + 1
                 /\ Last(log').ev = "sleep"
                 /\ Last(log').secs = RETRY_SLEEP_SECONDS * (attempt + 1)
            ELSE pc' = "raised"]_vars

\* ------------------------------------------------------------------------
\* C7: main() runs run_once at most MAX_ATTEMPTS times: every attempt but the
\* first follows a sleep that followed a raise, nothing follows an attempt
\* that returned normally, and when main() propagates an exception it is the
\* third attempt's, with two sleeps before it and none after.  Every step
\* inside main() brings it closer to its end.
\* ------------------------------------------------------------------------
\* steps run_once may still take from a position
StepsLeft(p) ==
    CASE p = "load" -> 7
      [] p = "fetch" -> 6
      [] p = "collect" -> 5
      [] p = "send1" -> 4
      [] p = "send2" -> 3
      [] p = "sendEnd" -> 2
      [] p = "save" -> 1
      [] OTHER -> 0

Measure == IF pc \in {"idle", "done", "raised"} THEN 0
           ELSE 8 * (MAX_ATTEMPTS - 1 - attempt) + StepsLeft(pc)

C7_Bounded ==
    /\ Cardinality({i \in Idx : log[i].ev = "start"}) <= MAX_ATTEMPTS
    /\ \A i \in Idx : log[i].ev = "start" =>
            /\ log[i].att = Cardinality({j \in 1..(i - 1) : log[j].ev = "start"})
            /\ i > 1 => log[i - 1].ev = "sleep"
    /\ \A i \in Idx : log[i].ev = "sleep" =>
            /\ log[i - 1].ev \in {"collect_raised", "write_failed", "start", "deals", "send"}
            /\ i < Len(log) => log[i + 1].ev = "start"
    /\ \A i \in Idx : log[i].ev \in {"nodata", "write"} => i = Len(log)
    /\ pc = "done" => Last(log).ev \in {"nodata", "write"}
    /\ pc = "raised" =>
            /\ attempt = MAX_ATTEMPTS - 1
            /\ Cardinality({i \in Idx : log[i].ev = "start"}) = MAX_ATTEMPTS
            /\ Cardinality({i \in Idx : log[i].ev = "sleep"}) = MAX_ATTEMPTS - 1
            /\ Last(log).ev # "sleep"
            /\ exc # "none"
    /\ Measure >= 0

C7_BoundedRetry ==
    /\ []C7_Bounded
    /\ [][pc \notin {"idle", "done", "raised"} => Measure' < Measure]_vars

\* all three attempts raised and the third one's exception left main()
C7_Witness ==
    /\ pc = "raised"
    /\ Cardinality({i \in Idx : log[i].ev = "start"}) = MAX_ATTEMPTS
    /\ Cardinality({i \in Idx : log[i].ev = "sleep"}) = MAX_ATTEMPTS - 1

\* ------------------------------------------------------------------------
\* C8: when telegram_send raises a RequestException (a non-2xx answer), the
\* same step delivers nothing more, the state file is what the attempt found
\* and the attempt has written nothing; main() then sleeps
\* RETRY_SLEEP_SECONDS times the 1-based attempt number and starts the next
\* attempt, or propagates the exception when the attempt was the last.
\* ------------------------------------------------------------------------
C8_DeliveryFailure ==
    [][(pc \in {"send1", "send2", "sendEnd"} /\ exc' = "RequestException") =>
            /\ file' = file /\ file' = file_at_start
            /\ ~HasEvent(attempt, "write") /\ ~HasEvent(attempt, "write_failed")
            /\ IF attempt < MAX_ATTEMPTS - 1
               THEN /\ log' = Append(log, [ev |-> "sleep", att |-> attempt,
                                           secs |-> RETRY_SLEEP_SECONDS * (attempt + 1)])
                    /\ attempt' = attempt + 1
                    /\ pc' = "load"
               ELSE /\ log' = log
                    /\ pc' = "raised"]_vars

\* message 2 failed on the second attempt: six seconds of sleep follow
C8_Witness ==
    /\ pc = "load"
    /\ exc = "RequestException"
    /\ attempt = 2
    /\ Last(log).ev = "sleep" /\ Last(log).secs = 6
    /\ Len(log) > 1 /\ log[Len(log) - 1].ev = "send"
    /\ log[Len(log) - 1].msg.kind = "msg1"
    /\ file = file_at_start

\* ------------------------------------------------------------------------
\* C9: a write of the state is the last thing an attempt does; a cycle that
\* got data and completed has written exactly once, after its sends, a state
\* whose sale_active tells whether the deal list is non-empty and whose
\* last_signature is "<variant id>|<reference price>><price>" of the
\* top-ranked deal, or "" without a deal.
\* ------------------------------------------------------------------------
\* deal a ranks before deal b, as the ranking is documented
RanksBefore(a, b) ==
    \/ a.discount_pct.n * b.discount_pct.d > b.discount_pct.n * a.discount_pct.d
    \/ /\ a.discount_pct = b.discount_pct
       /\ \/ a.discount_abs > b.discount_abs
          \/ /\ a.discount_abs = b.discount_abs
             /\ \/ a.price < b.price
                \/ a.price = b.price /\ a.variant_id < b.variant_id

ExpectedSignature(deals) ==
    IF deals = <<>> THEN ""
    ELSE LET d == deals[CHOOSE i \in 1..Len(deals) :
                          \A j \in 1..Len(deals) : j = i \/ RanksBefore(deals[i], deals[j])]
         IN  ToString(d.variant_id) \o "|" \o Fmt2(d.compare_at) \o ">" \o Fmt2(d.price)

C9_SingleFinalWrite ==
    /\ \A i \in Idx : log[i].ev = "write" => i = Len(log) /\ pc = "done"
    /\ \A i \in Idx : log[i].ev = "write_failed" =>
            i = Len(log) \/ (log[i + 1].ev = "sleep" /\ log[i + 1].att = log[i].att)
    /\ \A a \in Attempts : CountEvents(a, "write") + CountEvents(a, "write_failed") <= 1
    /\ (pc \in {"load", "fetch", "collect", "send1", "send2", "sendEnd", "save"}
            /\ HasEvent(attempt, "start")) => file = file_at_start
    /\ (pc = "done" /\ HasEvent(attempt, "deals")) =>
            /\ CountEvents(attempt, "write") = 1
            /\ Last(log).ev = "write"
            /\ Last(log).written.sale_active = (loc.deals # <<>>)
            /\ Last(log).written.last_signature = ExpectedSignature(loc.deals)
            /\ file = save_state(Last(log).written)

\* seven deals, the first listed is not the best: the transition completed
\* and the file carries the best deal's signature
C9_Witness ==
    /\ pc = "done"
    /\ Len(loc.deals) = TOP_N + 2
    /\ SendKinds(attempt) = <<"msg1", "msg2">>
    /\ Last(log).ev = "write"
    /\ file.last_signature = "5|100.00>50.00"
    /\ loc.deals[1].variant_id # 5

\* ------------------------------------------------------------------------
\* collect_deals on its own: every small feed is an input
\* ------------------------------------------------------------------------
\* products per feed and variants per feed
MaxProducts == 2
MaxVariants == 3

VariantPool ==
    {Variant(Num(1), Num(500), Num(1000)),       \* discounted
     Variant(Num(1), Num(1000), Num(1000)),      \* equal prices
     Variant(Num(2), Num(800), Num(1000)),       \* discounted
     Variant(Num(2), Num(1000), Num(500)),       \* inverted prices
     Variant(Null, Num(500), Num(1000)),         \* discounted, no id
     Variant(Num(1), Junk, Num(1000)),           \* price is no number
     Variant(Junk, Num(500), Num(1000)),         \* id is no integer
     Variant(Num(2), Num(0 - 500), Num(0 - 100)), \* negative prices
     Variant(Num(3), Num(1000), Num(2000)),      \* discounted, same percentage as id 1
     Variant(Num(3), Num(0 - 600), Num(0 - 200))} \* negative, same discount as id 2

\* the variants of a feed in listing order
VariantLists == UNION {[1..n -> VariantPool] : n \in 0..MaxVariants}

\* where one product's variants end and the next one's begin: cut[i] variants
\* belong to products 1..i
Cuts(n) ==
    {cut \in [0..MaxProducts -> 0..n] :
        /\ cut[0] = 0
        /\ cut[MaxProducts] = n
        /\ \A i \in 1..MaxProducts : cut[i - 1] <= cut[i]}

\* MaxProducts products with distinct titles share out the variants vs
SmallFeed(vs, cut) ==
    [i \in 1..MaxProducts |->
        Product("P" \o ToString(i), IF i = 1 THEN "" ELSE "p",
                SubSeq(vs, cut[i - 1] + 1, cut[i]))]

InitDeals ==
    /\ file = AbsentFile
    /\ NOTIFY_SALE_END = FALSE
    /\ credentials = TRUE
    /\ pc = "feed"
    /\ attempt = 0
    /\ runs = 0
    /\ state = DefaultState
    /\ resp = NoResponse
    /\ \E vs \in VariantLists : \E cut \in Cuts(Len(vs)) : data = DictBody(SmallFeed(vs, cut))
    /\ loc = NoLocals
    /\ exc = "none"
    /\ log = <<>>
    /\ file_at_start = file

\* lines 216-230 applied to the feed
CollectDeals ==
    /\ pc = "feed"
    /\ pc' = "collected"
    /\ LET c == collect_deals(ProductsOf(data))
       IN  IF c.err
           THEN exc' = "Exception" /\ loc' = loc
           ELSE exc' = exc /\ loc' = Locals(c, state)
    /\ UNCHANGED <<file, NOTIFY_SALE_END, credentials, attempt, runs, state, resp, data,
                   log, file_at_start>>

NextDeals == CollectDeals

SpecDeals == InitDeals /\ [][NextDeals]_vars

\* ------------------------------------------------------------------------
\* C10: for every variant of the feed whose price and reference price both
\* parse, the returned list holds a Deal made from that variant if and only
\* if its reference price is strictly greater than its price.
\* ------------------------------------------------------------------------
\* the deal list holds a Deal with this variant's id, prices, title and url
DealFor(p, v) ==
    /\ v.id.k # "junk"
    /\ \E k \in 1..Len(loc.deals) :
        /\ loc.deals[k].variant_id = (IF v.id.k = "null" THEN 0 ELSE v.id.v)
        /\ loc.deals[k].price = v.price.v
        /\ loc.deals[k].compare_at = v.compare_at_price.v
        /\ loc.deals[k].title = ProductTitle(p)
        /\ loc.deals[k].url = ProductUrl(p)

C10_DealIffDiscounted ==
    pc = "collected" =>
        \A i \in 1..Len(data.products) :
            \A j \in 1..Len(data.products[i].variants) :
                LET v == data.products[i].variants[j]
                IN  (v.price.k = "num" /\ v.compare_at_price.k = "num") =>
                        (DealFor(data.products[i], v) <=> v.compare_at_price.v > v.price.v)

\* ------------------------------------------------------------------------
\* Reading the feed: the occurrences of variants, in listing order
\* ------------------------------------------------------------------------
Occ == {o \in (1..Len(data.products)) \X (1..MaxVariants) :
            o[2] <= Len(data.products[o[1]].variants)}
OccBefore(a, b) == a[1] < b[1] \/ (a[1] = b[1] /\ a[2] < b[2])
VarAt(o) == data.products[o[1]].variants[o[2]]
HasId(o) == VarAt(o).id.k # "junk"
IdAt(o) == IF VarAt(o).id.k = "null" THEN 0 ELSE VarAt(o).id.v
Parses(o) == VarAt(o).price.k = "num" /\ VarAt(o).compare_at_price.k = "num"
Repeated(o) == \E q \in Occ : q # o /\ HasId(q) /\ IdAt(q) = IdAt(o)

\* the Deals of the returned list that carry the id of occurrence o
DealsWithId(o) == {k \in 1..Len(loc.deals) : loc.deals[k].variant_id = IdAt(o)}

\* deal d has the title, url, price and reference price of occurrence o
MadeFrom(d, o) ==
    /\ Parses(o)
    /\ d.price = VarAt(o).price.v
    /\ d.compare_at = VarAt(o).compare_at_price.v
    /\ d.title = ProductTitle(data.products[o[1]])
    /\ d.url = ProductUrl(data.products[o[1]])

FirstParsing(o) ==
    /\ HasId(o) /\ Parses(o)
    /\ \A q \in Occ : (HasId(q) /\ Parses(q) /\ IdAt(q) = IdAt(o)) => ~OccBefore(q, o)

C12_NonNegativeDeals ==
    pc = "collected" =>
        \A k \in 1..Len(loc.deals) :
            loc.deals[k].price >= 0 /\ loc.deals[k].compare_at >= 0

\* ------------------------------------------------------------------------
\* C13: the ranked list is a permutation of the deal list in which a deal
\* with a larger percentage comes first, then the larger absolute discount,
\* then the lower price, then the lower variant id; every listing order of
\* the same deals gives the same ranked list.
\* ------------------------------------------------------------------------
Perms(n) == {f \in [1..n -> 1..n] : \A i, j \in 1..n : f[i] = f[j] => i = j}

C18_CountsAgree ==
    (pc = "collected" /\ exc = "none") =>
        /\ loc.discounted_variants = Len(loc.deals)
        /\ loc.discounted_products =
                Cardinality({i \in 1..Len(data.products) :
                    \E k \in 1..Len(loc.deals) :
                        loc.deals[k].title = ProductTitle(data.products[i])})
        /\ loc.discounted_products <= loc.discounted_variants
        /\ (loc.discounted_products = 0) <=> (loc.discounted_variants = 0)

\* the first product has two Deals and is counted once, the second product
\* has a variant but no Deal
C18_Witness ==
    /\ pc = "collected" /\ exc = "none"
    /\ Len(data.products[1].variants) = 2
    /\ Len(data.products[2].variants) = 1
    /\ Len(loc.deals) = 2
    /\ loc.deals[1].title = "P1" /\ loc.deals[2].title = "P1"
    /\ loc.discounted_products = 1
    /\ loc.discounted_variants = 2

\* ------------------------------------------------------------------------
\* C14: with k ranked deals, message 1 lists the ranked deals 1..min(TOP_N, k);
\* message 2 reports k - min(TOP_N, k) further variants, lists the ranked
\* deals TOP_N+1..min(2*TOP_N, k) when k > TOP_N, and carries the
\* no-further-deals line exactly when k <= TOP_N; no deal is in both.
\* ------------------------------------------------------------------------
C14_MessageSlices ==
    \A i \in Idx :
        (log[i].ev = "send" /\ log[i].att = attempt /\ pc # "load") =>
            LET m == log[i].msg
                k == Len(loc.ranked)
                shown == Min(TOP_N, k)
            IN  /\ m.kind = "msg1" =>
                    /\ k > 0
                    /\ m.lines = SubSeq(loc.ranked, 1, shown)
                    /\ m.top_label = shown /\ ~m.placeholder
                    /\ m.variants = k
                /\ m.kind = "msg2" =>
                    /\ m.remaining = k - shown /\ m.remaining >= 0
                    /\ m.after_top = shown
                    /\ m.lines = (IF k > TOP_N
                                  THEN SubSeq(loc.ranked, TOP_N + 1, Min(2 * TOP_N, k))
                                  ELSE <<>>)
                    /\ m.no_further <=> (k <= TOP_N)
                    /\ \A j \in Idx :
                        (log[j].ev = "send" /\ log[j].att = attempt
                            /\ log[j].msg.kind = "msg1") =>
                            \A a \in 1..Len(m.lines), b \in 1..Len(log[j].msg.lines) :
                                m.lines[a].variant_id # log[j].msg.lines[b].variant_id

\* seven deals: five in message 1, a remaining count of 2 and the other two
\* deals in message 2
C14_Witness ==
    /\ pc = "done"
    /\ Len(loc.ranked) = 7 /\ TOP_N = 5
    /\ SendKinds(attempt) = <<"msg1", "msg2">>
    /\ \E i \in Idx : /\ log[i].ev = "send" /\ log[i].att = attempt
                      /\ log[i].msg.kind = "msg2"
                      /\ log[i].msg.remaining = 2
                      /\ Len(log[i].msg.lines) = 2
                      /\ ~log[i].msg.no_further

\* ------------------------------------------------------------------------
\* C15: what a completed cycle delivered and wrote is what a cycle with the
\* same feed and the same loaded sale_active, but an empty stored signature,
\* delivers and writes; a cycle that loaded sale_active = true delivers no
\* SaleStarted message whatever the stored signature is.
\* ------------------------------------------------------------------------
\* the locals of the cycle on the current feed from a state without signature
BlankRun(active) ==
    Locals(collect_deals(ProductsOf(data)), [sale_active |-> active, last_signature |-> ""])

\* the messages of the cycle with locals l
MessagesOf(l) ==
    IF NotifyStart(l.was_active, l.sale_now) THEN <<Message1(l), Message2(l)>>
    ELSE IF NotifyEnd(l.was_active, l.sale_now, NOTIFY_SALE_END) THEN <<MessageEnd>>
    ELSE <<>>

SentBy(a) ==
    LET sends == SelectSeq(log, LAMBDA e : e.att = a /\ e.ev = "send")
    IN  [i \in 1..Len(sends) |-> sends[i].msg]

C15_SignatureDiagnosticOnly ==
    /\ (pc = "done" /\ HasEvent(attempt, "write")) =>
            LET twin == BlankRun(EventOf(attempt, "start").active)
            IN  /\ SentBy(attempt) = MessagesOf(twin)
                /\ Last(log).written.sale_active = twin.sale_now
                /\ Last(log).written.last_signature = twin.signature
                /\ file = save_state(NewState(DefaultState, twin))
    /\ \A a \in Attempts :
            (HasEvent(a, "start") /\ EventOf(a, "start").active) =>
                \A i \in Idx : (log[i].att = a /\ log[i].ev = "send") =>
                                    log[i].msg.kind = "end"

\* the top deal changed while the sale was recorded active: no message, the
\* new signature is written
C15_Witness ==
    /\ pc = "done"
    /\ HasEvent(attempt, "write")
    /\ EventOf(attempt, "start").active
    /\ file_at_start.last_signature = "5|100.00>50.00"
    /\ file.last_signature = "1|100.00>70.00"
    /\ SentBy(attempt) = <<>>

\* ------------------------------------------------------------------------
\* C17: a RequestException on attempt k < 3 (1-based) is followed by one
\* sleep of RETRY_SLEEP_SECONDS * k seconds (3, then 6), any other exception
\* by one sleep of RETRY_SLEEP_SECONDS seconds (3); an exception on the third
\* attempt is followed by no sleep.
\* ------------------------------------------------------------------------
SleepCount(lg) == Cardinality({i \in 1..Len(lg) : lg[i].ev = "sleep"})

C17_BackoffSchedule ==
    [][(exc = "none" /\ exc' # "none") =>
            IF attempt + 1 < 3
            THEN /\ SleepCount(log') = SleepCount(log) + 1
                 /\ Last(log').ev = "sleep"
                 /\ Last(log').secs = (IF exc' = "RequestException"
                                       THEN (IF attempt + 1 = 1 THEN 3 ELSE 6)
                                       ELSE 3)
                 /\ attempt' = attempt + 1
            ELSE /\ SleepCount(log') = SleepCount(log)
                 /\ pc' = "raised"]_vars

\* a delivery failure on the first attempt (3 s), an exception of another
\* class on the second: 3 s again, not 6
C17_Witness ==
    /\ pc = "load"
    /\ attempt = 2
    /\ exc = "Exception"
    /\ Last(log).ev = "sleep" /\ Last(log).secs = 3 /\ Last(log).att = 1
    /\ \E i \in Idx : log[i].ev = "sleep" /\ log[i].att = 0 /\ log[i].secs = 3
                      /\ log[i - 1].ev = "send"

\* ------------------------------------------------------------------------
\* C19: the persisted flag goes from false (or no readable state) to true
\* only in the save step of an attempt that has delivered message 1 and
\* message 2.
\* ------------------------------------------------------------------------
C19_NoAlertLost ==
    [][(~load_state(file).sale_active /\ load_state(file').sale_active) =>
            /\ pc = "save" /\ pc' = "done"
            /\ SendKinds(attempt) = <<"msg1", "msg2">>
            /\ ~EventOf(attempt, "start").active]_vars

\* the second invocation's third attempt completes the transition after two
\* attempts with delivery failures
C19_Witness ==
    /\ pc = "done"
    /\ runs = 2 /\ attempt = 2
    /\ ~load_state(file_at_start).sale_active
    /\ file.kind = "json" /\ file.sale_active
    /\ SendKinds(attempt) = <<"msg1", "msg2">>
    /\ exc = "none"
    /\ SleepCount(log) = 2

\* ------------------------------------------------------------------------
\* The state file as the two scripts read it: load_state of bot.py
\* (lines 36-55) and load_state of mnstry_watch.py (lines 17-21), each
\* followed by the first use of the loaded flag.
\* ------------------------------------------------------------------------
\* a file that exists but cannot be opened, and a file holding valid JSON
\* that is not an object (the list [])
UnreadableFile ==
    [kind |-> "unreadable", keys |-> {}, sale_active |-> FALSE, last_signature |-> ""]
NonObjectFile ==
    [kind |-> "nonobject", keys |-> {}, sale_active |-> FALSE, last_signature |-> ""]

StateKeys == {"sale_active", "last_signature", "last_signal"}
StoredSignatures == {"", "5|100.00>50.00", "1|100.00>70.00"}

\* JSON objects with any subset of the keys; an absent key has no value
\* (its field holds the filler FALSE or "")
StoredObjects ==
    {JsonFile(keys, a, sig) :
        keys \in SUBSET StateKeys, a \in BOOLEAN, sig \in StoredSignatures}
    \ {f \in [kind : {"json"}, keys : SUBSET StateKeys, sale_active : BOOLEAN,
              last_signature : StoredSignatures] :
            \/ "sale_active" \notin f.keys /\ f.sale_active
            \/ "last_signature" \notin f.keys /\ f.last_signature # ""}

StateFiles == {AbsentFile, CorruptFile, UnreadableFile, NonObjectFile} \cup StoredObjects

\* mnstry_watch.py lines 17-21: the default record when there is no file,
\* otherwise whatever json.load returns; open and json.load are not guarded
watch_load_state(f) ==
    IF f.kind = "absent"
    THEN [raised |-> FALSE, kind |-> "json", keys |-> {"sale_active", "last_signal"},
          sale_active |-> FALSE]
    ELSE IF f.kind \in {"corrupt", "unreadable"}
         THEN [raised |-> TRUE, kind |-> f.kind, keys |-> {}, sale_active |-> FALSE]
         ELSE [raised |-> FALSE, kind |-> f.kind, keys |-> f.keys,
               sale_active |-> f.sale_active]

InitState ==
    /\ file \in StateFiles
    /\ NOTIFY_SALE_END = FALSE
    /\ credentials = TRUE
    /\ pc = "stored"
    /\ attempt = 0
    /\ runs = 0
    /\ state = DefaultState
    /\ resp = NoResponse
    /\ data = NoneData
    /\ loc = NoLocals
    /\ exc = "none"
    /\ log = <<>>
    /\ file_at_start = file

\* bot.py line 209
LoadStateBot ==
    /\ pc = "stored"
    /\ pc' = "bot_loaded"
    /\ state' = load_state(file)
    /\ UNCHANGED <<file, NOTIFY_SALE_END, credentials, attempt, runs, resp, data, loc,
                   exc, log, file_at_start>>

\* bot.py line 230
WasActiveBot ==
    /\ pc = "bot_loaded"
    /\ pc' = "bot_cycle"
    /\ loc' = [loc EXCEPT !.was_active = state.sale_active]
    /\ UNCHANGED <<file, NOTIFY_SALE_END, credentials, attempt, runs, state, resp, data,
                   exc, log, file_at_start>>

\* mnstry_watch.py line 78
LoadStateWatch ==
    /\ pc = "stored"
    /\ LET r == watch_load_state(file)
       IN  IF r.raised
           THEN pc' = "watch_raised" /\ exc' = "Exception" /\ state' = state
           ELSE pc' = "watch_loaded" /\ exc' = exc /\ state' = r
    /\ UNCHANGED <<file, NOTIFY_SALE_END, credentials, attempt, runs, resp, data, loc,
                   log, file_at_start>>

\* mnstry_watch.py line 87: state["sale_active"] raises TypeError on a list
\* and KeyError on an object without the key
WasActiveWatch ==
    /\ pc = "watch_loaded"
    /\ IF state.kind = "json" /\ "sale_active" \in state.keys
       THEN pc' = "watch_cycle" /\ exc' = exc
            /\ loc' = [loc EXCEPT !.was_active = state.sale_active]
       ELSE pc' = "watch_raised" /\ exc' = "Exception" /\ loc' = loc
    /\ UNCHANGED <<file, NOTIFY_SALE_END, credentials, attempt, runs, state, resp, data,
                   log, file_at_start>>

NextState ==
    \/ LoadStateBot
    \/ WasActiveBot
    \/ LoadStateWatch
    \/ WasActiveWatch

SpecState == InitState /\ [][NextState]_vars

\* the file holds no valid state record at all
NoRecord(f) == f.kind # "json"

\* ------------------------------------------------------------------------
\* C16: when the state file is absent, unreadable or holds no valid state
\* record, load_state raises nothing and returns sale_active = false (and,
\* in bot.py, last_signature = ""), and the cycle goes on as from Quiet; a
\* record lacking a key gets that key's default.
\* ------------------------------------------------------------------------
C16_DefaultOnBadState ==
    /\ pc \in {"bot_loaded", "bot_cycle"} =>
        /\ exc = "none"
        /\ NoRecord(file) => state = DefaultState
        /\ (file.kind = "json" /\ "sale_active" \notin file.keys) => ~state.sale_active
        /\ (file.kind = "json" /\ "last_signature" \notin file.keys) =>
                state.last_signature = ""
        /\ (pc = "bot_cycle" /\ (NoRecord(file) \/ "sale_active" \notin file.keys)) =>
                ~loc.was_active
    /\ (pc \in {"watch_loaded", "watch_cycle", "watch_raised"}
            /\ (NoRecord(file) \/ "sale_active" \notin file.keys)) =>
        /\ exc = "none"
        /\ pc # "watch_raised"
        /\ pc = "watch_cycle" => ~loc.was_active

\* ------------------------------------------------------------------------
\* The sale persists: the scheduler starts main() again and again, every
\* fetch returns a well-formed feed with at least one deal, the credentials
\* are configured; delivery and the state write may fail at any time.
\* ------------------------------------------------------------------------
\* deal counts of a feed that lists the sale: one deal, and more than TOP_N
SaleCounts == {1, TOP_N + 2}

\* the answer of the shop with k discounted variants
SaleResponse(k) ==
    HttpResponse(FALSE, 200, "application/json; charset=utf-8", TRUE, DictBody(SaleFeed(k)))

InitRetry ==
    /\ file \in {f \in InitialFiles : ~load_state(f).sale_active}
    /\ NOTIFY_SALE_END \in BOOLEAN
    /\ credentials = TRUE
    /\ pc = "idle"
    /\ attempt = 0
    /\ runs = 0
    /\ state = DefaultState
    /\ resp = NoResponse
    /\ data = NoneData
    /\ loc = NoLocals
    /\ exc = "none"
    /\ log = <<>>
    /\ file_at_start = file

\* the scheduler starts the process once more; runs counts the invocations
\* up to MaxRuns and stays there
Reinvoke ==
    /\ pc \in {"idle", "done", "raised"}
    /\ runs' = Min(runs + 1, MaxRuns)
    /\ attempt' = 0
    /\ pc' = "load"
    /\ log' = <<>>
    /\ exc' = "none"
    /\ UNCHANGED <<file, NOTIFY_SALE_END, credentials, state, resp, data, loc, file_at_start>>

\* lines 211-214 against a feed that lists the sale
FetchSale ==
    /\ pc = "fetch"
    /\ \E k \in SaleCounts :
        LET r == SaleResponse(k)
        IN  /\ resp' = r
            /\ data' = http_get_json(r)
            /\ IF NotData(http_get_json(r))
               THEN /\ pc' = "done"
                    /\ log' = Append(log, [ev |-> "nodata", att |-> attempt])
               ELSE /\ pc' = "collect"
                    /\ log' = log
    /\ UNCHANGED <<file, NOTIFY_SALE_END, credentials, attempt, runs, state, loc, exc,
                   file_at_start>>

NextRetry ==
    \/ Reinvoke
    \/ LoadState
    \/ FetchSale
    \/ Collect
    \/ SendMessage1
    \/ SendMessage2
    \/ SaveState

\* the scheduler keeps starting the process and the interpreter keeps taking
\* steps: no step that can be taken is put off for ever, and collect_deals
\* and the sort return (the control does not stay at the collect position);
\* nothing is assumed about which outcome a send or a write has
SpecRetry ==
    /\ InitRetry
    /\ [][NextRetry]_vars
    /\ WF_vars(Reinvoke)
    /\ WF_vars(LoadState)
    /\ WF_vars(FetchSale)
    /\ WF_vars(SendMessage1)
    /\ WF_vars(SendMessage2)
    /\ WF_vars(SaveState)
    /\ []<>(pc # "collect")

\* the calls that return without raising
Send1Ok == SendMessage1 /\ pc' = "send2"
Send2Ok == SendMessage2 /\ pc' = "save"
SaveOk == SaveState /\ pc' = "done"

\* main() has re-raised on its third attempt of a cycle that loaded
\* sale_active = false
Exhausted ==
    /\ pc = "raised"
    /\ HasEvent(attempt, "start")
    /\ ~EventOf(attempt, "start").active

\* both messages delivered by the attempt that wrote sale_active = true
NotifiedAndActive ==
    /\ pc = "done"
    /\ load_state(file).sale_active
    /\ SendKinds(attempt) = <<"msg1", "msg2">>

\* after an exhausted invocation the flag on disk is false, and a cycle that
\* loads a false flag and finds a deal goes to message 1
StillQuiet == Exhausted => ~load_state(file).sale_active
Reattempts ==
    (pc = "collect" /\ pc' \notin {"load", "raised"} /\ ~load_state(file).sale_active
        /\ loc'.sale_now) => pc' = "send1"

====
